---- MODULE Spec2Model ----
(***************************************************************************)
(* Model of app.py, the rabbit grooming record keeper: a roster CSV        *)
(* (rabbit_data.csv), one grooming log CSV per rabbit, a pool of photo     *)
(* files, and the handlers of the three tabs that mutate them.             *)
(*                                                                         *)
(* Text is modelled as a sequence of characters (one-character strings),   *)
(* so that split_photos / join_photos are computed as the code computes    *)
(* them.  A generated photo filename is the three-chunk sequence           *)
(* <<rabbit_id, base_dt, unique>>, each chunk standing for a run of        *)
(* ordinary characters (no "|", no whitespace).                            *)
(***************************************************************************)
EXTENDS Integers, Sequences, FiniteSets, TLC

(***************************************************************************)
(* Bounds of the model                                                     *)
(***************************************************************************)
MaxOps == 2        \* user interactions per run of the workflow model
MaxRefs == 2       \* references in a list given to join_photos
MaxChars == 4      \* total characters of such a list

(***************************************************************************)
(* Settings (app.py 23-35)                                                 *)
(***************************************************************************)
RABBITS == <<"R01", "R02">>          \* first rows of the default roster
RabbitIDs == {RABBITS[i] : i \in DOMAIN RABBITS}

COL_DT == "jisshi_nichiji"           \* canonical timestamp column
COL_W == "taijuu_g"                  \* canonical weight column
COL_MEMO == "memo_ja"                \* canonical note column
COL_PHOTOS == "shashin_file"         \* canonical photo column
COL_NEXT == "jikai_yoyaku_nichiji"   \* roster column of the next appointment
LEGACY_W == "weight"                 \* weight column of an older revision
DT == "_dt"                          \* internal sort column of load_log

CanonicalCols == <<COL_DT, COL_W, COL_MEMO, COL_PHOTOS>>

(***************************************************************************)
(* Characters and Python string helpers                                    *)
(***************************************************************************)
Bar == "|"
Whitespace == {" "}

\* str.lower() on one character
LowerChar(c) == IF c = "A" THEN "a" ELSE IF c = "N" THEN "n" ELSE c

\* str.lower()
Lower(s) == [i \in DOMAIN s |-> LowerChar(s[i])]

RECURSIVE LStrip(_)
LStrip(s) == IF s # <<>> /\ Head(s) \in Whitespace THEN LStrip(Tail(s)) ELSE s

RECURSIVE RStrip(_)
RStrip(s) ==
  IF s # <<>> /\ s[Len(s)] \in Whitespace THEN RStrip(SubSeq(s, 1, Len(s) - 1)) ELSE s

\* str.strip()
Strip(s) == RStrip(LStrip(s))

\* s.split("|"): the parts between the bars, empty parts included
RECURSIVE SplitBar(_, _)
SplitBar(s, cur) ==
  IF s = <<>> THEN <<cur>>
  ELSE IF Head(s) = Bar THEN <<cur>> \o SplitBar(Tail(s), <<>>)
  ELSE SplitBar(Tail(s), Append(cur, Head(s)))

\* "|".join(parts)
RECURSIVE JoinBar(_)
JoinBar(parts) ==
  IF parts = <<>> THEN <<>>
  ELSE IF Len(parts) = 1 THEN parts[1]
  ELSE parts[1] \o <<Bar>> \o JoinBar(Tail(parts))

(***************************************************************************)
(* Missing values of a DataFrame                                           *)
(***************************************************************************)
\* float NaN, the missing value of a text cell (a text cell is a character
\* sequence; this one-chunk sequence is no text a user can type)
NaN == <<"<NaN>">>
\* str(cell): str(float("nan")) is "nan"
Str(cell) == IF cell = NaN THEN <<"n", "a", "n">> ELSE cell

(***************************************************************************)
(* split_photos / join_photos                                              *)
(***************************************************************************)
NonEmpty(p) == p # <<>>

split_photos(cell) ==
  LET s == Strip(Str(cell)) IN
  IF s = <<>> \/ Lower(s) = <<"n", "a", "n">> THEN <<>>
  ELSE LET raw == SplitBar(s, <<>>)
           parts == [i \in DOMAIN raw |-> Strip(raw[i])]
       IN SelectSeq(parts, NonEmpty)

StripsNonEmpty(f) == f # <<>> /\ Strip(f) # <<>>

\* a slip that joins the references without trimming them
join_photos_untrimmed(files) == JoinBar(SelectSeq(files, NonEmpty))

join_photos(files) ==
  LET kept == SelectSeq(files, StripsNonEmpty) IN
  JoinBar([i \in DOMAIN kept |-> Strip(kept[i])])

(***************************************************************************)
(* Timestamps.  A datetime of minute resolution is a number of DateTimes;  *)
(* its "%Y-%m-%d %H:%M" text is one chunk.                                 *)
(***************************************************************************)
DateTimes == {1, 2}

to_dt_str(dt) == IF dt = 1 THEN <<"2024-06-01 09:30">> ELSE <<"2024-06-02 10:00">>

\* dt.strftime("%Y%m%d_%H%M") in save_uploaded_photos
base_dt(dt) == IF dt = 1 THEN "20240601_0930" ELSE "20240602_1000"

\* pd.to_datetime(..., errors="coerce") gives a datetime (not NaT) for s
IsDateTime(s) == \E dt \in DateTimes : to_dt_str(dt) = s
to_datetime(s) == CHOOSE dt \in DateTimes : to_dt_str(dt) = s

\* parse_dt_str(s) is not None
parse_dt_str_ok(s) == Strip(s) # <<>> /\ IsDateTime(Strip(s))

(***************************************************************************)
(* CSV files and DataFrames.  A table is [exists, cols, rows]: the set of  *)
(* its column names and the sequence of its rows, each a function from the *)
(* columns to cells.  A weight cell is <<>> (empty / NaN) or <<n>>; every  *)
(* other cell is text.                                                     *)
(***************************************************************************)
WeightCols == {COL_W, LEGACY_W}
Canonical == {CanonicalCols[i] : i \in DOMAIN CanonicalCols}

\* texts that pandas.read_csv reads as missing (its default na_values)
NaTexts == {<<>>, <<"N", "A">>, <<"n", "a", "n">>, <<"N", "a", "N">>}

\* pd.read_csv on one cell
read_cell(c, x) == IF c \in WeightCols THEN x ELSE IF x \in NaTexts THEN NaN ELSE x

\* DataFrame.to_csv on one cell
write_cell(c, x) == IF c \in WeightCols THEN x ELSE IF x = NaN THEN <<>> ELSE x

\* the value of `df[c] = ""`
EmptyCell == <<>>
\* the value pd.concat gives a row for a column it lacks
MissingCell(c) == IF c \in WeightCols THEN <<>> ELSE NaN

NoFile == [exists |-> FALSE, cols |-> {}, rows |-> <<>>]

read_csv(file) ==
  [cols |-> file.cols,
   rows |-> [i \in DOMAIN file.rows |->
               [c \in file.cols |-> read_cell(c, file.rows[i][c])]]]

to_csv(df) ==
  [exists |-> TRUE,
   cols |-> df.cols,
   rows |-> [i \in DOMAIN df.rows |->
               [c \in df.cols |-> write_cell(c, df.rows[i][c])]]]

(***************************************************************************)
(* Logs (Grooming)                                                         *)
(***************************************************************************)
init_log(file) ==
  IF file.exists THEN file ELSE [exists |-> TRUE, cols |-> Canonical, rows |-> <<>>]

HasDateTime(row) == IsDateTime(row[COL_DT])

\* load_log on the file of a rabbit: the DataFrame it returns
load_log(file) ==
  LET df == read_csv(init_log(file))
      cols == df.cols \cup Canonical
      filled == [i \in DOMAIN df.rows |->
                   [c \in cols |-> IF c \in df.cols THEN df.rows[i][c] ELSE EmptyCell]]
      kept == SelectSeq(filled, HasDateTime)
  IN [cols |-> cols \cup {DT},
      rows |-> [i \in DOMAIN kept |->
                  [c \in cols \cup {DT} |->
                     IF c = DT THEN to_datetime(kept[i][COL_DT]) ELSE kept[i][c]]]]

\* save_log: the file written
save_log(df) ==
  to_csv([cols |-> df.cols \ {DT},
          rows |-> [i \in DOMAIN df.rows |-> [c \in df.cols \ {DT} |-> df.rows[i][c]]]])

\* the new_row dict of append_log_row
new_row(dt, weight_g, memo, photo_files) ==
  [c \in Canonical \cup {DT} |->
     IF c = COL_DT THEN to_dt_str(dt)
     ELSE IF c = COL_W THEN weight_g
     ELSE IF c = COL_MEMO THEN memo
     ELSE IF c = COL_PHOTOS THEN join_photos(photo_files)
     ELSE to_datetime(to_dt_str(dt))]

\* a slip that writes the new row alone
concat_new_only(df, row) == [cols |-> DOMAIN row, rows |-> <<row>>]

\* pd.concat([df, pd.DataFrame([row])], ignore_index=True)
concat(df, row) ==
  LET cols == df.cols \cup DOMAIN row
      widen(r) == [c \in cols |-> IF c \in DOMAIN r THEN r[c] ELSE MissingCell(c)]
  IN [cols |-> cols, rows |-> [i \in DOMAIN df.rows |-> widen(df.rows[i])] \o <<widen(row)>>]

\* append_log_row: the file it leaves (weight_g is <<>> for None, <<n>> else)
append_log_row(file, dt, weight_g, memo, photo_files) ==
  save_log(concat(load_log(file), new_row(dt, weight_g, memo, photo_files)))

\* a slip that removes the reference and also blanks the note of the row
edit_row_photos_and_memo(df, row_index, filename) ==
  LET photos == split_photos(df.rows[row_index + 1][COL_PHOTOS])
      Other(p) == p # filename
  IN [df EXCEPT !.rows[row_index + 1] =
        [@ EXCEPT ![COL_MEMO] = EmptyCell,
                  ![COL_PHOTOS] = join_photos(SelectSeq(photos, Other))]]

\* lines 279-281 of delete_one_photo_from_row, on the row at position
\* row_index (counted from 0) of the re-indexed DataFrame
edit_row_photos(df, row_index, filename) ==
  LET photos == split_photos(df.rows[row_index + 1][COL_PHOTOS])
      Other(p) == p # filename
  IN [df EXCEPT !.rows[row_index + 1][COL_PHOTOS] = join_photos(SelectSeq(photos, Other))]

\* the early return of delete_one_photo_from_row
OutOfRange(df, row_index) == row_index < 0 \/ row_index >= Len(df.rows)

\* delete_one_photo_from_row: the log file it leaves
delete_one_photo_log(file, row_index, filename) ==
  LET df == load_log(file) IN
  IF OutOfRange(df, row_index) THEN init_log(file)
  ELSE save_log(edit_row_photos(df, row_index, filename))

\* safe_delete_file(photo_path(filename)) on the photo directory
safe_delete_file(dir, filename) == dir \ {filename}

\* delete_one_photo_from_row: the photo directory it leaves
delete_one_photo_dir(file, row_index, filename, dir) ==
  IF OutOfRange(load_log(file), row_index) THEN dir ELSE safe_delete_file(dir, filename)

\* the n-th value drawn from uuid4().hex[:8], with the extension, as one
\* chunk; the draws are taken to be pairwise distinct
unique(n) == ToString(n)
\* what st.file_uploader hands over: how many files
Uploads == 0..2

\* save_uploaded_photos: the filenames saved, in upload order, when `drawn`
\* values were drawn from uuid4 before
save_uploaded_photos(rabbit_id, dt, uploaded_files, drawn) ==
  [i \in 1..uploaded_files |-> <<rabbit_id, base_dt(dt), unique(drawn + i)>>]

Range(f) == {f[i] : i \in DOMAIN f}

(***************************************************************************)
(* Master (Rabbit): the roster file, as the COL_NEXT cell of each row      *)
(***************************************************************************)
init_master == [id \in RabbitIDs |-> <<>>]
load_master(file) == [id \in RabbitIDs |-> read_cell(COL_NEXT, file[id])]
save_master(df) == [id \in RabbitIDs |-> write_cell(COL_NEXT, df[id])]

\* the sorts of Tab3's view_df: load order re-arranged newest first
Perms(n) == {f \in [1..n -> 1..n] : \A i, j \in 1..n : i # j => f[i] # f[j]}
sort_values_desc(df) ==
  {[i \in DOMAIN df.rows |-> df.rows[f[i]]] : f \in
     {g \in Perms(Len(df.rows)) :
        \A i, j \in DOMAIN df.rows : i < j => df.rows[g[i]][DT] >= df.rows[g[j]][DT]}}

(***************************************************************************)
(* State                                                                   *)
(***************************************************************************)
VARIABLES
  master,      \* rabbit_data.csv: rabbit id -> text of its next-appointment cell
  logs,        \* grooming_{rabbit_id}.csv: rabbit id -> table
  photos_dir,  \* the filenames present in data/photos
  sel_id,      \* the rabbit selected in the sidebar
  ops,         \* handlers run so far
  uuids,       \* values drawn from uuid4 so far
  last,        \* the handler that ran last, with its inputs
  prev,        \* the files as they were before that handler
  sess,        \* two browser sessions inside append_log_row (SpecAppend)
  rt           \* a photo list taken through join / split / join (SpecPhotos)

vars == <<master, logs, photos_dir, sel_id, ops, uuids, last, prev, sess, rt>>

(***************************************************************************)
(* Inputs of the forms                                                     *)
(***************************************************************************)
Weights == {0, 1500}                          \* st.number_input, 0.0 by default
Memos == {<<>>, <<"trim", " ">>, <<"N", "A">>}   \* st.text_area
Sessions == {"s1", "s2"}

(***************************************************************************)
(* Log files found in data/ when the app starts                            *)
(***************************************************************************)
Photo1 == <<"R01", base_dt(1), "a1b2c3d4.jpg">>
Photo2 == <<"R01", base_dt(2), "e5f6a7b8.png">>

Row(dt, w, memo, photos) ==
  [c \in Canonical |->
     IF c = COL_DT THEN dt ELSE IF c = COL_W THEN w
     ELSE IF c = COL_MEMO THEN memo ELSE photos]

\* written by earlier sessions of this revision, in the order recorded
WrittenLog ==
  [exists |-> TRUE, cols |-> Canonical,
   rows |-> <<Row(to_dt_str(1), <<1500>>, <<"trim">>, Photo1),
              Row(to_dt_str(2), <<>>, <<>>, Photo2)>>]

\* written by an older revision: its own weight column, no photo column
LegacyLog ==
  [exists |-> TRUE, cols |-> {COL_DT, LEGACY_W, COL_MEMO},
   rows |-> <<[c \in {COL_DT, LEGACY_W, COL_MEMO} |->
                 IF c = COL_DT THEN to_dt_str(1)
                 ELSE IF c = LEGACY_W THEN <<1500>> ELSE <<"trim">>]>>]

\* a row whose timestamp does not parse, and a row naming a photo twice
DamagedLog ==
  [exists |-> TRUE, cols |-> Canonical,
   rows |-> <<Row(<<"not-a-date">>, <<1400>>, <<"trim">>, <<>>),
              Row(to_dt_str(2), <<1520>>, <<"trim">>, Photo2 \o <<Bar>> \o Photo2)>>]

LogFiles == {NoFile, WrittenLog, LegacyLog, DamagedLog}

PhotosOf(file) ==
  IF COL_PHOTOS \in file.cols
  THEN UNION {Range(split_photos(file.rows[i][COL_PHOTOS])) : i \in DOMAIN file.rows}
  ELSE {}

NoCard == [c \in {"none"} |-> 0]
NoLast ==
  [op |-> "start", dt |-> 0, weight_g |-> 0, w |-> <<>>, memo |-> <<>>, files |-> <<>>,
   i |-> 0, p |-> <<>>, card |-> NoCard]
Snapshot == [master |-> master, logs |-> logs, photos_dir |-> photos_dir]

IdleSess == [s \in Sessions |-> [pc |-> "idle", df |-> load_log(NoFile), row |-> NoCard, at |-> 0]]
IdleRt == [pc |-> "idle", files |-> <<>>, cell |-> <<>>, parts |-> <<>>, cell2 |-> <<>>]

(***************************************************************************)
(* The state after the first run of the script: the roster seeded, the     *)
(* first rabbit selected and its log initialised by Tab3.                  *)
(***************************************************************************)
Init ==
  /\ master = init_master
  /\ sel_id = RABBITS[1]
  /\ \E f \in LogFiles :
       logs = [id \in RabbitIDs |-> IF id = RABBITS[1] THEN init_log(f) ELSE NoFile]
  /\ photos_dir = PhotosOf(logs[RABBITS[1]])
  /\ ops = 0
  /\ uuids = 0
  /\ last = NoLast
  /\ prev = [master |-> master, logs |-> logs, photos_dir |-> photos_dir]
  /\ sess = IdleSess
  /\ rt = IdleRt

(***************************************************************************)
(* Handlers.  Each is one run of the script with the widget that fired,    *)
(* followed by the rerun, whose Tab3 calls init_log(sel_id).               *)
(***************************************************************************)
\* sidebar selectbox
SelectRabbit ==
  /\ ops < MaxOps
  /\ \E id \in RabbitIDs \ {sel_id} :
       /\ sel_id' = id
       /\ logs' = [logs EXCEPT ![id] = init_log(@)]
  /\ ops' = ops + 1
  /\ last' = [NoLast EXCEPT !.op = "select"]
  /\ prev' = Snapshot
  /\ UNCHANGED <<master, photos_dir, uuids, sess, rt>>

\* line 348
set_next(master_df, row_idx, combined) == [master_df EXCEPT ![row_idx] = to_dt_str(combined)]

\* Tab1, "save next booking"
SaveNext ==
  /\ ops < MaxOps
  /\ \E combined \in DateTimes :
       /\ master' = save_master(set_next(load_master(master), sel_id, combined))
       /\ last' = [NoLast EXCEPT !.op = "set", !.dt = combined]
  /\ ops' = ops + 1
  /\ prev' = Snapshot
  /\ UNCHANGED <<logs, photos_dir, sel_id, uuids, sess, rt>>

\* lines 355 and 398
clear_next(master_df, row_idx) == [master_df EXCEPT ![row_idx] = EmptyCell]

\* Tab1, "clear next booking"
ClearNext ==
  /\ ops < MaxOps
  /\ master' = save_master(clear_next(load_master(master), sel_id))
  /\ last' = [NoLast EXCEPT !.op = "clear"]
  /\ ops' = ops + 1
  /\ prev' = Snapshot
  /\ UNCHANGED <<logs, photos_dir, sel_id, uuids, sess, rt>>

\* a slip that records every entered weight, zero included
done_weight_as_entered(weight_g) == <<weight_g>>

\* line 392: w = None if weight_g == 0.0 else float(weight_g)
done_weight(weight_g) == IF weight_g = 0 THEN <<>> ELSE <<weight_g>>

\* a slip that leaves the pending appointment in place
done_keep_next(master_df, row_idx) == master_df

\* lines 398-399 of the handler
done_clear_next(master_df, row_idx) == clear_next(master_df, row_idx)

\* Tab2, "record completed"
RecordDone ==
  /\ ops < MaxOps
  /\ \E done_dt \in DateTimes, weight_g \in Weights, memo \in Memos, photos \in Uploads :
       LET master_df == load_master(master)
           w == done_weight(weight_g)
           saved_files == save_uploaded_photos(sel_id, done_dt, photos, uuids)
       IN /\ photos_dir' = photos_dir \cup Range(saved_files)
          /\ uuids' = uuids + photos
          /\ logs' = [logs EXCEPT ![sel_id] =
                        append_log_row(init_log(@), done_dt, w, Strip(memo), saved_files)]
          /\ master' = save_master(done_clear_next(master_df, sel_id))
          /\ last' = [NoLast EXCEPT !.op = "done", !.dt = done_dt, !.weight_g = weight_g, !.w = w,
                                   !.memo = Strip(memo), !.files = saved_files]
  /\ ops' = ops + 1
  /\ prev' = Snapshot
  /\ UNCHANGED <<sel_id, sess, rt>>

\* Tab3, "delete this photo" on photo p of the card at position i of view_df
DeletePhoto ==
  /\ ops < MaxOps
  /\ \E view_df \in sort_values_desc(load_log(logs[sel_id])) :
       \E i \in 0..(Len(view_df) - 1) :
         LET photos_list == split_photos(view_df[i + 1][COL_PHOTOS]) IN
         \E k \in DOMAIN photos_list :
           LET p == photos_list[k] IN
           /\ logs' = [logs EXCEPT ![sel_id] = delete_one_photo_log(@, i, p)]
           /\ photos_dir' = delete_one_photo_dir(logs[sel_id], i, p, photos_dir)
           /\ last' = [NoLast EXCEPT !.op = "delete", !.i = i, !.p = p,
                                    !.card = view_df[i + 1]]
  /\ ops' = ops + 1
  /\ prev' = Snapshot
  /\ UNCHANGED <<master, sel_id, uuids, sess, rt>>

Next == SelectRabbit \/ SaveNext \/ ClearNext \/ RecordDone \/ DeletePhoto

Spec == Init /\ [][Next]_vars

(***************************************************************************)
(* The session records of a log, as Tab3 reads them off the loaded rows    *)
(***************************************************************************)
\* a missing note and an empty note are the same note
Note(cell) == IF cell = NaN THEN <<>> ELSE cell

Record(row) ==
  [timestamp |-> row[DT], weight |-> row[COL_W], note |-> Note(row[COL_MEMO]),
   photo_refs |-> split_photos(row[COL_PHOTOS])]

Records(file) == LET df == load_log(file) IN [i \in DOMAIN df.rows |-> Record(df.rows[i])]

Count(xs, x) == Cardinality({i \in DOMAIN xs : xs[i] = x})
Without(xs, x) == LET Other(y) == y # x IN SelectSeq(xs, Other)

Before == Records(prev.logs[sel_id])
After == Records(logs[sel_id])

(***************************************************************************)
(* C1: after "record completed" for the selected rabbit, its next          *)
(* appointment is absent, whatever it was before and whatever was entered. *)
(***************************************************************************)
C1_NextAbsentAfterDone ==
  last.op = "done" =>
    /\ master[sel_id] = <<>>
    /\ ~parse_dt_str_ok(Str(load_master(master)[sel_id]))

C1_Witness == last.op = "done" /\ parse_dt_str_ok(prev.master[sel_id])

(***************************************************************************)
(* C2: append_log_row followed by load_log gives the records loaded before *)
(* followed by one record carrying the appended timestamp, weight, note    *)
(* and photo references.                                                   *)
(***************************************************************************)
C2_AppendThenLoad ==
  last.op = "done" =>
    After = Append(Before, [timestamp |-> last.dt, weight |-> last.w,
                            note |-> last.memo, photo_refs |-> last.files])

\* the same without the note: what C2's failure is confined to
C2_AppendThenLoadButNote ==
  last.op = "done" =>
    /\ Len(After) = Len(Before) + 1
    /\ \A j \in DOMAIN Before : After[j] = Before[j]
    /\ After[Len(After)].timestamp = last.dt
    /\ After[Len(After)].weight = last.w
    /\ After[Len(After)].photo_refs = last.files
    /\ last.memo \notin NaTexts => After[Len(After)].note = last.memo

(***************************************************************************)
(* C3: delete_one_photo_from_row with an in-range row_index removes        *)
(* exactly one occurrence of filename from that row's photo list: k >= 1   *)
(* occurrences before, k - 1 after, the other references in order.         *)
(***************************************************************************)
C3_RemovesOneOccurrence ==
  last.op = "delete" =>
    LET before == Before[last.i + 1].photo_refs
        after == After[last.i + 1].photo_refs
    IN Count(before, last.p) >= 1 =>
         /\ Count(after, last.p) = Count(before, last.p) - 1
         /\ Without(after, last.p) = Without(before, last.p)

(***************************************************************************)
(* C4 (as amended): delete_one_photo_from_row changes nothing but the      *)
(* photo list of the loaded record at row_index: every loaded record keeps *)
(* its position, timestamp, weight and note, every other loaded record its *)
(* photo list too, and the other logs and the roster are untouched; rows   *)
(* whose timestamp does not parse are not written back.                    *)
(***************************************************************************)
C4_DeleteFrame ==
  last.op = "delete" =>
    /\ Len(After) = Len(Before)
    /\ \A j \in DOMAIN Before :
         /\ After[j].timestamp = Before[j].timestamp
         /\ After[j].weight = Before[j].weight
         /\ After[j].note = Before[j].note
         /\ j # last.i + 1 => After[j].photo_refs = Before[j].photo_refs
    /\ Len(logs[sel_id].rows) = Len(Before)
    /\ \A id \in RabbitIDs \ {sel_id} : logs[id] = prev.logs[id]
    /\ master = prev.master

C4_Witness ==
  /\ last.op = "delete"
  /\ Len(Before) >= 2
  /\ After[last.i + 1].photo_refs # Before[last.i + 1].photo_refs
  /\ Before[last.i + 1].note # <<>>

\* C4 as claimed: no row is added to or removed from the stored table
C4_StoredRowsKept ==
  last.op = "delete" => Len(logs[sel_id].rows) = Len(prev.logs[sel_id].rows)

(***************************************************************************)
(* C6: a log that stores the weight under the legacy column name and has   *)
(* no photo column loads with that weight and with no photo references.    *)
(***************************************************************************)
C6_LegacyWeightLoaded ==
  \A id \in RabbitIDs :
    LET file == logs[id] IN
    (LEGACY_W \in file.cols /\ COL_W \notin file.cols /\ COL_PHOTOS \notin file.cols) =>
      /\ Len(Records(file)) = Len(file.rows)
      /\ \A i \in DOMAIN file.rows :
           /\ Records(file)[i].weight = file.rows[i][LEGACY_W]
           /\ Records(file)[i].photo_refs = <<>>

(***************************************************************************)
(* C7 (as amended): in the record-session workflow a weight entered as 0   *)
(* is stored as absent and every other weight as entered.                  *)
(***************************************************************************)
C7_ZeroWeightStoredAbsent ==
  last.op = "done" =>
    After[Len(After)].weight = IF last.weight_g = 0 THEN <<>> ELSE <<last.weight_g>>

C7_Witness ==
  last.op = "done" /\ last.weight_g = 0 /\ After[Len(After)].weight = <<>>

\* C7 as claimed: a session recorded with weight 0 stores the weight 0
C7_ZeroWeightStoredAsZero ==
  last.op = "done" => After[Len(After)].weight = <<last.weight_g>>

(***************************************************************************)
(* C8: the position Tab3 passes to delete_one_photo_from_row designates,   *)
(* in the order that function loads, the record of the card clicked.       *)
(***************************************************************************)
C8_ViewPositionIsLoadPosition ==
  last.op = "delete" =>
    /\ Record(load_log(prev.logs[sel_id]).rows[last.i + 1]) = Record(last.card)
    /\ Count(After[last.i + 1].photo_refs, last.p)
         < Count(Record(last.card).photo_refs, last.p)

(***************************************************************************)
(* C9: delete_one_photo_from_row never deletes a photo file that a record  *)
(* of the log still references, and changes neither the log nor the photo  *)
(* directory when filename is not in the row at row_index.                 *)
(***************************************************************************)
C9_DeletedAssetUnreferenced ==
  last.op = "delete" =>
    /\ (last.p \in prev.photos_dir /\ last.p \notin photos_dir) =>
         \A j \in DOMAIN After : Count(After[j].photo_refs, last.p) = 0
    /\ Count(Before[last.i + 1].photo_refs, last.p) = 0 =>
         (After = Before /\ photos_dir = prev.photos_dir)

(***************************************************************************)
(* SpecPhotos: a list of references taken through join_photos,             *)
(* split_photos and join_photos again.                                     *)
(***************************************************************************)
Alphabet == {"A", "n", Bar, " "}

Texts(k) == UNION {[1..m -> Alphabet] : m \in 0..k}

\* the lists of n texts of at most `budget` characters in all
RECURSIVE RefLists(_, _)
RefLists(n, budget) ==
  IF n = 0 THEN {<<>>}
  ELSE UNION {{<<t>> \o rest : rest \in RefLists(n - 1, budget - Len(t))} : t \in Texts(budget)}

InitPhotos ==
  /\ master = init_master
  /\ sel_id = RABBITS[1]
  /\ logs = [id \in RabbitIDs |-> NoFile]
  /\ photos_dir = {}
  /\ ops = 0
  /\ uuids = 0
  /\ last = NoLast
  /\ prev = [master |-> master, logs |-> logs, photos_dir |-> photos_dir]
  /\ sess = IdleSess
  /\ \E n \in 0..MaxRefs : \E files \in RefLists(n, MaxChars) :
       rt = [IdleRt EXCEPT !.pc = "input", !.files = files]

RtJoin ==
  /\ rt.pc = "input"
  /\ rt' = [rt EXCEPT !.pc = "joined", !.cell = join_photos(rt.files)]
  /\ UNCHANGED <<master, logs, photos_dir, sel_id, ops, uuids, last, prev, sess>>

RtSplit ==
  /\ rt.pc = "joined"
  /\ rt' = [rt EXCEPT !.pc = "split", !.parts = split_photos(rt.cell)]
  /\ UNCHANGED <<master, logs, photos_dir, sel_id, ops, uuids, last, prev, sess>>

RtRejoin ==
  /\ rt.pc = "split"
  /\ rt' = [rt EXCEPT !.pc = "rejoined", !.cell2 = join_photos(rt.parts)]
  /\ UNCHANGED <<master, logs, photos_dir, sel_id, ops, uuids, last, prev, sess>>

NextPhotos == RtJoin \/ RtSplit \/ RtRejoin

SpecPhotos == InitPhotos /\ [][NextPhotos]_vars

NoBarIn(files) == \A i \in DOMAIN files : \A k \in DOMAIN files[i] : files[i][k] # Bar

A_JPG == <<"a", ".", "j", "p", "g">>
B_PNG == <<"b", ".", "p", "n", "g">>

(***************************************************************************)
(* C5 (as amended): join_photos(split_photos(join_photos(r))) equals       *)
(* join_photos(r) for every list r of references none of which contains    *)
(* "|" and whose joined text is not "nan" in any letter case; and          *)
(* split(join(["a.jpg","b.png"])) = ["a.jpg","b.png"], join([]) = "",      *)
(* split("") = [], split("nan") = [].                                      *)
(***************************************************************************)
C5_RoundTripStable ==
  /\ (rt.pc = "rejoined" /\ NoBarIn(rt.files) /\ Lower(rt.cell) # <<"n", "a", "n">>) =>
       rt.cell2 = rt.cell
  /\ split_photos(join_photos(<<A_JPG, B_PNG>>)) = <<A_JPG, B_PNG>>
  /\ join_photos(<<>>) = <<>>
  /\ split_photos(<<>>) = <<>>
  /\ split_photos(<<"n", "a", "n">>) = <<>>

C5_Witness ==
  /\ rt.pc = "rejoined"
  /\ NoBarIn(rt.files)
  /\ Len(rt.parts) = 2
  /\ rt.parts # rt.files
  /\ rt.cell2 = rt.cell

\* C5 as claimed: for every list of reference strings
C5_RoundTripAnyList == rt.pc = "rejoined" => rt.cell2 = rt.cell

(***************************************************************************)
(* SpecAppend: two browser sessions, each inside append_log_row for the    *)
(* selected rabbit, stepping at its load_log and at its save_log.          *)
(***************************************************************************)
SessWeights == {<<>>, <<1500>>}
SessMemos == {<<>>, <<"trim">>}

\* append_log_row up to line 264: the log loaded, the new row built
SessLoad(s) ==
  /\ sess[s].pc = "idle"
  /\ \E dt \in DateTimes, w \in SessWeights, memo \in SessMemos :
       sess' = [sess EXCEPT ![s] = [pc |-> "loaded", df |-> load_log(logs[sel_id]),
                                    row |-> new_row(dt, w, memo, <<>>), at |-> 0]]
  /\ logs' = [logs EXCEPT ![sel_id] = init_log(@)]
  /\ UNCHANGED <<master, photos_dir, sel_id, ops, uuids, last, prev, rt>>

\* lines 266-267: concat and save_log
SessSave(s) ==
  /\ sess[s].pc = "loaded"
  /\ logs' = [logs EXCEPT ![sel_id] = save_log(concat(sess[s].df, sess[s].row))]
  /\ sess' = [sess EXCEPT ![s].pc = "saved",
                          ![s].at = 1 + Cardinality({t \in Sessions : sess[t].pc = "saved"})]
  /\ UNCHANGED <<master, photos_dir, sel_id, ops, uuids, last, prev, rt>>

NextAppend == \E s \in Sessions : SessLoad(s) \/ SessSave(s)

SpecAppend == Init /\ [][NextAppend]_vars

AllSaved == \A s \in Sessions : sess[s].pc = "saved"
Earlier == CHOOSE s \in Sessions : sess[s].at = 1
Later == CHOOSE s \in Sessions : sess[s].at = 2
\* neither session's load saw the other's save
Interleaved == sess[Later].df = load_log(prev.logs[sel_id])

(***************************************************************************)
(* C10: when two appends to one log interleave so that neither load sees   *)
(* the other's save, the log ends with the records it had and the later    *)
(* writer's record only; when they run one after the other it ends with    *)
(* both records, in order.                                                 *)
(***************************************************************************)
C10_LastWriteWins ==
  AllSaved =>
    IF Interleaved
    THEN After = Append(Before, Record(sess[Later].row))
    ELSE After = Before \o <<Record(sess[Earlier].row), Record(sess[Later].row)>>

C10_Witness ==
  /\ AllSaved
  /\ Interleaved
  /\ Len(Before) >= 1
  /\ Record(sess[Earlier].row) # Record(sess[Later].row)
  /\ \A j \in DOMAIN After : After[j] # Record(sess[Earlier].row)

====
